---------------------------- MODULE Spec2Model ----------------------------
(***************************************************************************)
(* A model of the SIH data pipeline: the Collector (sih-scraper-data.py)   *)
(* scrapes State/City rows from three result pages and writes CSV/JSON     *)
(* files; the Reporter (sih-data-analysis.py) loads such a file, counts    *)
(* frequencies and renders charts.                                         *)
(*                                                                         *)
(* Text is a sequence of one-character strings, so that str.strip,         *)
(* str.startswith, Path.suffix and the CSV reader's missing-value rule are *)
(* computed rather than assumed.  Python's None and pandas' NaN are the    *)
(* one-element sequences None and NaN, whose element is not a character.   *)
(***************************************************************************)
EXTENDS Integers, Sequences, FiniteSets, TLC

\* ------------------------------------------------------------------ bounds

\* The longest page (number of <tr> elements) a fetched URL returns.
MaxRows == 2

\* The most records that precede the fixed tail of a Dataset the Reporter
\* loads.
MaxLen == 2

\* The largest n, top_n, top_states and top_cities passed explicitly.
MaxN == 2

\* ------------------------------------------------------------------- text

None == <<"None">>
NaN == <<"NaN">>

Whitespace == {" ", "\t", "\n"}

Min(a, b) == IF a < b THEN a ELSE b

Range(s) == { s[k] : k \in DOMAIN s }

Last(s) == s[Len(s)]

RECURSIVE LStrip(_)
LStrip(t) == IF t # <<>> /\ Head(t) \in Whitespace THEN LStrip(Tail(t)) ELSE t

RECURSIVE RStrip(_)
RStrip(t) ==
    IF t # <<>> /\ t[Len(t)] \in Whitespace
    THEN RStrip(SubSeq(t, 1, Len(t) - 1))
    ELSE t

\* str.strip(): leading and trailing whitespace removed.
Strip(t) == RStrip(LStrip(t))

\* str.startswith(prefix)
StartsWith(t, prefix) ==
    /\ Len(t) >= Len(prefix)
    /\ SubSeq(t, 1, Len(prefix)) = prefix

T_row == <<"r", "o", "w">>
T_MH == <<"M", "H">>
T_MH_padded == <<" ", "M", "H", " ">>
T_DL == <<"D", "L">>
T_Pune == <<"P", "u", "n", "e">>
T_Pune_nl == <<"P", "u", "n", "e", "\n">>
T_Goa == <<"G", "o", "a">>
T_Blank == <<" ">>
T_Empty == <<>>

sih_data_csv == <<"s", "i", "h", "_", "d", "a", "t", "a", ".", "c", "s", "v">>
sih_data_json == <<"s", "i", "h", "_", "d", "a", "t", "a", ".", "j", "s", "o", "n">>
combined_csv == <<"c", "o", "m", "b", "i", "n", "e", "d", "_", "s", "i", "h", "_", "d", "a", "t", "a", ".", "c", "s", "v">>
combined_json == <<"c", "o", "m", "b", "i", "n", "e", "d", "_", "s", "i", "h", "_", "d", "a", "t", "a", ".", "j", "s", "o", "n">>

\* --------------------------------------------------------------- DataFrame

\* pd.DataFrame({"State": states, "City": cities}): two columns of one length.
DataFrame(states, cities) == [State |-> states, City |-> cities]

NRows(d) == Len(d.State)

\* A concatenation that puts the later frames first.
RECURSIVE Concat_reversed(_)
Concat_reversed(frames) ==
    IF frames = <<>>
    THEN [State |-> <<>>, City |-> <<>>]
    ELSE LET rest == Concat_reversed(Tail(frames))
         IN [State |-> rest.State \o Head(frames).State,
             City |-> rest.City \o Head(frames).City]

\* pd.concat(frames, ignore_index=True): the frames' rows, in list order.
RECURSIVE Concat(_)
Concat(frames) ==
    IF frames = <<>>
    THEN DataFrame(<<>>, <<>>)
    ELSE LET rest == Concat(Tail(frames))
         IN DataFrame(Head(frames).State \o rest.State,
                      Head(frames).City \o rest.City)

\* One CSV field of a value: a missing value is written as the empty field.
CsvField(v) == IF v \in {None, NaN} THEN <<>> ELSE v

\* df.to_csv(path, index=False): a header line and one line of fields per row.
ToCsv(d) ==
    [kind |-> "csv",
     header |-> <<"State", "City">>,
     rows |-> [k \in 1..NRows(d) |->
                 <<CsvField(d.State[k]), CsvField(d.City[k])>>]]

\* One JSON value of a value: a missing value is written as null.
JsonValue(v) == IF v \in {None, NaN} THEN [null |-> TRUE, str |-> <<>>]
                ELSE [null |-> FALSE, str |-> v]

\* df.to_json(path, orient="records"): an array of {"State": .., "City": ..}.
ToJson(d) ==
    [kind |-> "json",
     records |-> [k \in 1..NRows(d) |->
                    [State |-> JsonValue(d.State[k]),
                     City |-> JsonValue(d.City[k])]]]

\* ---------------------------------------------------------------- the web

urls == << "https://www.sih.gov.in/screeningresult",
           "https://www.sih.gov.in/screeningresult_batch_two",
           "https://sih.gov.in/screeningresult_batch_three" >>

\* A <tr> element: its class attribute (None when it has none) and the <td>
\* cells that row.find returns for the State and City classes (None when the
\* row has no such cell, else the cell's text).
Tr(class, state, city) == [class |-> class, state |-> state, city |-> city]

\* The <tr> elements a page is made of: a full row whose texts carry
\* surrounding whitespace, a row whose State cell holds only whitespace, a row
\* without a State cell, a row without a City cell, and a header row, whose
\* class does not start with "row".
TrElements ==
    { Tr(T_row \o <<"1">>, T_MH_padded, T_Pune_nl),
      Tr(T_row \o <<"2">>, T_Blank, T_Goa),
      Tr(T_row \o <<"3">>, None, T_Goa),
      Tr(T_row \o <<"4">>, T_DL, None),
      Tr(<<"h", "e", "a", "d">>, T_DL, T_Pune) }

RECURSIVE SeqsUpTo(_, _)
SeqsUpTo(S, n) ==
    IF n = 0 THEN { <<>> }
    ELSE LET shorter == SeqsUpTo(S, n - 1)
         IN shorter \cup { Append(s, x) : s \in shorter, x \in S }

Pages == SeqsUpTo(TrElements, MaxRows)

\* What requests.get + raise_for_status meet: a network-level failure, a
\* non-success HTTP status, or a page.
Responses ==
    { [outcome |-> "network_error", trs |-> <<>>],
      [outcome |-> "http_error", trs |-> <<>>] }
    \cup { [outcome |-> "ok", trs |-> p] : p \in Pages }

\* --------------------------------------------------------------- variables

VARIABLES
    cpc,        \* Collector: "loop" while in the for loop of main, then "done"
    idx,        \* Collector: index into urls of the next URL to scrape
    response,   \* Collector: what the URL scraped last answered
    returned,   \* Collector: per attempted URL, what scrape_sih_data returned
    attempted,  \* Collector: the URLs handed to scrape_sih_data, in order
    all_data,   \* Collector: main's list of fragments (DataFrames)
    files,      \* the working directory: path -> file content
    writes,     \* the paths written by this run, in order
    out,        \* the console: printed messages, in order
    rpc,        \* Reporter: "new" before SIHAnalyzer(...), then "ready" or "failed"
    data_path,  \* Reporter: self.data_path
    df,         \* Reporter: self.df
    rcParams,   \* the plotting library's process-wide style
    dirs,       \* the directories created
    reads,      \* the files handed to a parser, with the parser
    err,        \* the exception that left the constructor, if any
    last        \* what the operation called last computed and rendered

collectorVars == <<cpc, idx, response, returned, attempted, all_data, writes, out>>

reporterVars == <<rpc, data_path, df, rcParams, dirs, reads, err, last>>

vars == <<collectorVars, files, reporterVars>>

Msg(text, n) == [msg |-> text, n |-> n]

\* ------------------------------------------------------------- Collector

\* soup.find_all("tr", class_=lambda x: x and x.startswith("row"))
FindRows(trs) ==
    SelectSeq(trs, LAMBDA tr : tr.class # None /\ StartsWith(tr.class, T_row))

\* A test that keeps a row when either cell was found.
RowKept_either(row) == row.state # None \/ row.city # None

\* `if state and city`: a found Tag is truthy whatever its contents.
RowKept(row) == row.state # None /\ row.city # None

\* The for loop over the rows: the stripped texts of the rows kept.
RECURSIVE ExtractColumns(_)
ExtractColumns(rows) ==
    IF rows = <<>>
    THEN DataFrame(<<>>, <<>>)
    ELSE LET rest == ExtractColumns(Tail(rows))
             row == Head(rows)
         IN IF RowKept(row)
            THEN DataFrame(<<Strip(row.state)>> \o rest.State,
                           <<Strip(row.city)>> \o rest.City)
            ELSE rest

\* One "State or City not found in a row" line per row skipped.
RECURSIVE MissLines(_)
MissLines(rows) ==
    IF rows = <<>> THEN <<>>
    ELSE (IF RowKept(Head(rows)) THEN <<>> ELSE <<Msg("RowMiss", 0)>>)
         \o MissLines(Tail(rows))

\* A scrape that never takes the "No data extracted" return.
NoData_never(cols) == FALSE

\* `if not states or not cities: return None`
NoData(cols) == cols.State = <<>> \/ cols.City = <<>>

\* What scrape_sih_data does with no DataFrame to return.
ReturnNone(lines) ==
    [raised |-> FALSE, none |-> TRUE, df |-> DataFrame(<<>>, <<>>),
     wrote |-> <<>>, lines |-> lines]

\* An exception that leaves scrape_sih_data, and so main, uncaught.
Raise(lines) ==
    [raised |-> TRUE, none |-> TRUE, df |-> DataFrame(<<>>, <<>>),
     wrote |-> <<>>, lines |-> lines]

\* Lines 15-42 of scrape_sih_data: the page was fetched; parse it.
ParsePage(r) ==
    LET rows == FindRows(r.trs)
        cols == ExtractColumns(rows)
        head == <<Msg("Fetched", 0), Msg("Found", Len(rows))>>
                \o MissLines(rows)
    IN IF NoData(cols)
       THEN ReturnNone(head \o <<Msg("NoDataExtracted", 0)>>)
       ELSE [raised |-> FALSE, none |-> FALSE, df |-> cols,
             wrote |-> <<sih_data_csv, sih_data_json>>,
             lines |-> head]

\* A scrape_sih_data whose except clause catches connection errors only.
scrape_sih_data_http_uncaught(r) ==
    IF r.outcome = "http_error" THEN Raise(<<>>)
    ELSE IF r.outcome # "ok" THEN ReturnNone(<<Msg("ErrorFetching", 0)>>)
    ELSE ParsePage(r)

\* scrape_sih_data(url) on response r: the returned DataFrame (none: the
\* function returned None, as it does when the fetch failed or no row was
\* kept), the files written and the lines printed.  requests.get raises a
\* RequestException on a network-level failure and raise_for_status one on a
\* non-success status; the except clause catches both.
scrape_sih_data(r) ==
    IF r.outcome # "ok"
    THEN ReturnNone(<<Msg("ErrorFetching", 0)>>)
    ELSE ParsePage(r)

\* A write that leaves an existing file as it is.
WriteFile_keep_existing(fs, path, content) == fs @@ (path :> content)

\* to_csv / to_json on a path: the file is created or overwritten.
WriteFile(fs, path, content) == (path :> content) @@ fs

\* The body of main's for loop, for the next URL.  An exception leaving
\* scrape_sih_data ends main.
Scrape ==
    /\ cpc = "loop"
    /\ idx <= Len(urls)
    /\ \E r \in Responses :
         LET res == scrape_sih_data(r)
         IN /\ response' = r
            /\ returned' = Append(returned, [outcome |-> r.outcome,
                                              none |-> res.none,
                                              df |-> res.df])
            /\ attempted' = Append(attempted, urls[idx])
            /\ out' = out \o <<Msg("Starting", idx)>> \o res.lines
            /\ IF ~res.none
               THEN /\ files' = WriteFile(
                                  WriteFile(files, sih_data_csv, ToCsv(res.df)),
                                  sih_data_json, ToJson(res.df))
                    /\ all_data' = Append(all_data, res.df)
               ELSE UNCHANGED <<files, all_data>>
            /\ writes' = writes \o res.wrote
            /\ cpc' = IF res.raised THEN "crashed" ELSE "loop"
    /\ idx' = idx + 1
    /\ UNCHANGED reporterVars

\* main after the loop: `if all_data: ... else: print("No data scraped ...")`.
Combine ==
    /\ cpc = "loop"
    /\ idx > Len(urls)
    /\ IF all_data # <<>>
       THEN LET combined_df == Concat(all_data)
            IN /\ files' = WriteFile(
                             WriteFile(files, combined_csv, ToCsv(combined_df)),
                             combined_json, ToJson(combined_df))
               /\ writes' = writes \o <<combined_csv, combined_json>>
               /\ out' = out \o <<Msg("Success", 0),
                                   Msg("Shape", NRows(combined_df))>>
       ELSE /\ out' = Append(out, Msg("NoDataScraped", 0))
            /\ UNCHANGED <<files, writes>>
    /\ cpc' = "done"
    /\ UNCHANGED <<idx, response, returned, attempted, all_data>>
    /\ UNCHANGED reporterVars

\* ---------------------------------------------------- Reporter: loading

dot_csv == <<".", "c", "s", "v">>
dot_json == <<".", "j", "s", "o", "n">>

\* The path after its last "/": PurePath.name.
RECURSIVE PathName(_)
PathName(path) ==
    IF \E k \in 1..Len(path) : path[k] = "/"
    THEN PathName(Tail(path))
    ELSE path

\* Path(data_path).suffix: the name from its last dot on, or "" when the name
\* has no dot, starts with its only dot or ends with it.
Suffix(path) ==
    LET name == PathName(path)
        dots == { k \in 1..Len(name) : name[k] = "." }
    IN IF dots = {} THEN <<>>
       ELSE LET i == CHOOSE k \in dots : \A j \in dots : j <= k
            IN IF 1 < i /\ i < Len(name) THEN SubSeq(name, i, Len(name))
               ELSE <<>>

\* The fields pd.read_csv reads as a missing value (its default na_values).
NaValues ==
    { <<>>,
      <<"N", "A">>, <<"N", "/", "A">>, <<"n", "/", "a">>, <<"#", "N", "/", "A">>,
      <<"N", "a", "N">>, <<"n", "a", "n">>, <<"-", "N", "a", "N">>,
      <<"-", "n", "a", "n">>, <<"N", "U", "L", "L">>, <<"n", "u", "l", "l">>,
      <<"N", "o", "n", "e">>, <<"<", "N", "A", ">">>, <<"#", "N", "A">> }

\* The value pd.read_csv gives a field.
CsvValue(field) == IF field \in NaValues THEN NaN ELSE field

\* pd.read_csv(path) on a file written by to_csv.
read_csv(content) ==
    DataFrame([k \in 1..Len(content.rows) |-> CsvValue(content.rows[k][1])],
              [k \in 1..Len(content.rows) |-> CsvValue(content.rows[k][2])])

\* The value pd.read_json gives a JSON value: null is a missing value, a
\* string is itself.
JsonLoad(v) == IF v.null THEN NaN ELSE v.str

\* pd.read_json(path) on a file written by to_json(orient="records").
read_json(content) ==
    DataFrame([k \in 1..Len(content.records) |-> JsonLoad(content.records[k].State)],
              [k \in 1..Len(content.records) |-> JsonLoad(content.records[k].City)])

EmptyFrame == DataFrame(<<>>, <<>>)

\* SIHAnalyzer.load_data over the directory fs: the exception raised ("none"
\* when none), the DataFrame returned and the files handed to a parser.
load_data(path, fs) ==
    IF Suffix(path) = dot_csv
    THEN IF path \in DOMAIN fs
         THEN [err |-> "none", df |-> read_csv(fs[path]),
               reads |-> <<[path |-> path, parser |-> "csv"]>>]
         ELSE [err |-> "FileNotFoundError", df |-> EmptyFrame,
               reads |-> <<[path |-> path, parser |-> "csv"]>>]
    ELSE IF Suffix(path) = dot_json
    THEN IF path \in DOMAIN fs
         THEN [err |-> "none", df |-> read_json(fs[path]),
               reads |-> <<[path |-> path, parser |-> "json"]>>]
         ELSE [err |-> "FileNotFoundError", df |-> EmptyFrame,
               reads |-> <<[path |-> path, parser |-> "json"]>>]
    ELSE [err |-> "ValueError", df |-> EmptyFrame, reads |-> <<>>]

\* ------------------------------------------------------ Reporter: style

\* The three rcParams that tell the style sheets apart, as the library
\* starts with them.
DefaultRc ==
    [axes_facecolor |-> "white", text_color |-> "black",
     axes_labelsize |-> "medium"]

\* plt.style.use(sheet): the sheet's settings laid over the current ones.
StyleUse(rc, sheet) ==
    IF sheet = "seaborn-v0_8-darkgrid"
    THEN [rc EXCEPT !.axes_facecolor = "#EAEAF2", !.text_color = ".15"]
    ELSE IF sheet = "dark_background"
    THEN [rc EXCEPT !.axes_facecolor = "black", !.text_color = "white"]
    ELSE rc

\* SIHAnalyzer.setup_style
setup_style(rc) ==
    [StyleUse(rc, "seaborn-v0_8-darkgrid") EXCEPT !.axes_labelsize = "12"]

\* ---------------------------------------------------- Reporter: counting

\* The characters of the Datasets' texts, in code-point order.
CharOrder ==
    << "1", "2", "3", "4", "5", "6", "7", "8", "9",
       "C", "D", "G", "H", "L", "M", "P", "S", "a", "e", "n", "o", "u" >>

CodePoint ==
    [c \in Range(CharOrder) |-> CHOOSE i \in 1..Len(CharOrder) : CharOrder[i] = c]

Ord(c) == CodePoint[c]

\* a < b for Python strings.
RECURSIVE TextLess(_, _)
TextLess(a, b) ==
    IF b = <<>> THEN FALSE
    ELSE IF a = <<>> THEN TRUE
    ELSE IF Head(a) = Head(b) THEN TextLess(Tail(a), Tail(b))
    ELSE Ord(Head(a)) < Ord(Head(b))

\* A set of texts as a sorted index.
RECURSIVE SortTexts(_)
SortTexts(S) ==
    IF S = {} THEN <<>>
    ELSE LET m == CHOOSE m \in S : \A x \in S \ {m} : TextLess(m, x)
         IN <<m>> \o SortTexts(S \ {m})

RECURSIVE SumSeq(_)
SumSeq(s) == IF s = <<>> THEN 0 ELSE Head(s) + SumSeq(Tail(s))

\* The distinct values of a column in order of first appearance, missing
\* values left out.
RECURSIVE Uniques(_)
Uniques(col) ==
    IF col = <<>> THEN <<>>
    ELSE LET init == Uniques(SubSeq(col, 1, Len(col) - 1))
             v == col[Len(col)]
         IN IF v = NaN \/ v \in Range(init) THEN init ELSE Append(init, v)

Count(col, v) == Cardinality({ k \in 1..Len(col) : col[k] = v })

\* Series.nunique()
NUnique(col) == Len(Uniques(col))

\* e put into a sequence sorted by falling count, after the entries that
\* count as much.
RECURSIVE InsertDesc(_, _)
InsertDesc(sorted, e) ==
    IF sorted = <<>> THEN <<e>>
    ELSE IF Head(sorted).count >= e.count
    THEN <<Head(sorted)>> \o InsertDesc(Tail(sorted), e)
    ELSE <<e>> \o sorted

\* sort_values(ascending=False): by falling count, equal counts in their
\* former order.
RECURSIVE SortDesc(_)
SortDesc(series) ==
    IF series = <<>> THEN <<>>
    ELSE InsertDesc(SortDesc(SubSeq(series, 1, Len(series) - 1)),
                    series[Len(series)])

\* Series.value_counts(): a count for each distinct value that is not
\* missing, largest first.
ValueCounts(col) ==
    LET keys == Uniques(col)
    IN SortDesc([i \in 1..Len(keys) |->
                   [key |-> keys[i], count |-> Count(col, keys[i])]])

\* A head that stops one entry early.
HeadN_one_short(series, n) == SubSeq(series, 1, Min(n, Len(series)) - 1)

\* head(n), for n >= 0: the first n entries, or all when there are fewer.
HeadN(series, n) == SubSeq(series, 1, Min(n, Len(series)))

\* Series.nlargest(n): the n largest, largest first, the first in index
\* order among equals.
NLargest(series, n) == HeadN(SortDesc(series), n)

EmptyCross == [index |-> <<>>, columns |-> <<>>, cell |-> <<>>]

\* The rows pd.crosstab counts: those with both values.
CountedRows(d) ==
    { k \in 1..NRows(d) : d.State[k] # NaN /\ d.City[k] # NaN }

\* pd.crosstab(df["State"], df["City"]): sorted State index, sorted City
\* columns, and in each cell the number of rows with that pair.
Crosstab(d) ==
    LET counted == CountedRows(d)
        index == SortTexts({ d.State[k] : k \in counted })
        columns == SortTexts({ d.City[k] : k \in counted })
    IN [index |-> index,
        columns |-> columns,
        cell |-> [pr \in Range(index) \X Range(columns) |->
                    Cardinality({ k \in counted :
                                    <<d.State[k], d.City[k]>> = pr })]]

\* cross_tab.sum(axis=1): each State's row total, in index order.
RowTotals(ct) ==
    [i \in 1..Len(ct.index) |->
       [key |-> ct.index[i],
        count |-> SumSeq([j \in 1..Len(ct.columns) |->
                            ct.cell[<<ct.index[i], ct.columns[j]>>]])]]

\* cross_tab.sum(axis=0): each City's column total, in column order.
ColumnTotals(ct) ==
    [j \in 1..Len(ct.columns) |->
       [key |-> ct.columns[j],
        count |-> SumSeq([i \in 1..Len(ct.index) |->
                            ct.cell[<<ct.index[i], ct.columns[j]>>]])]]

Keys(series) == [i \in 1..Len(series) |-> series[i].key]

\* cross_tab.loc[rows, columns]
Loc(ct, rows, columns) ==
    [index |-> rows,
     columns |-> columns,
     cell |-> [pr \in Range(rows) \X Range(columns) |-> ct.cell[pr]]]

\* ---------------------------------------------------- Reporter: methods

PandasHeadDefault == 5
DefaultTopStates == 10
DefaultTopCities == 20
DefaultHeatmapStates == 10
DefaultHeatmapCities == 10
DashboardTop == 8
DashboardHeatmapStates == 6
DashboardHeatmapCities == 8

\* What an operation leaves behind: the numbers it computed, the style it
\* rendered with, the image it saved ("" when none) and whether the plotting
\* library raised.
NoResult ==
    [op |-> "none", n1 |-> 0, n2 |-> 0,
     total |-> 0, unique_states |-> 0, unique_cities |-> 0,
     states |-> <<>>, cities |-> <<>>,
     cross |-> EmptyCross, heat |-> EmptyCross,
     style |-> DefaultRc, saved |-> "", raised |-> FALSE]

\* The plotting library given nothing to draw either draws an empty chart or
\* raises; given data it draws.
PlotOutcomes(empty) == IF empty THEN BOOLEAN ELSE {FALSE}

Saved(save, raised, path) == IF save /\ ~raised THEN path ELSE ""

\* SIHAnalyzer.basic_stats
basic_stats(d) ==
    [NoResult EXCEPT
       !.op = "basic_stats",
       !.n1 = PandasHeadDefault,
       !.n2 = PandasHeadDefault,
       !.total = NRows(d),
       !.unique_states = NUnique(d.State),
       !.unique_cities = NUnique(d.City),
       !.states = HeadN(ValueCounts(d.State), PandasHeadDefault),
       !.cities = HeadN(ValueCounts(d.City), PandasHeadDefault)]

\* SIHAnalyzer.plot_top_states
plot_top_states(d, rc, n, save, raised) ==
    [NoResult EXCEPT
       !.op = "plot_top_states",
       !.n1 = n,
       !.states = HeadN(ValueCounts(d.State), n),
       !.style = rc,
       !.raised = raised,
       !.saved = Saved(save, raised, "results/top_states.png")]

\* SIHAnalyzer.plot_city_distribution
plot_city_distribution(d, rc, top_n, save, raised) ==
    [NoResult EXCEPT
       !.op = "plot_city_distribution",
       !.n2 = top_n,
       !.cities = HeadN(ValueCounts(d.City), top_n),
       !.style = rc,
       !.raised = raised,
       !.saved = Saved(save, raised, "results/city_distribution.png")]

\* SIHAnalyzer.state_city_heatmap
state_city_heatmap(d, rc, top_states, top_cities, save, raised) ==
    LET cross_tab == Crosstab(d)
        rows == Keys(NLargest(RowTotals(cross_tab), top_states))
        columns == Keys(NLargest(ColumnTotals(cross_tab), top_cities))
    IN [NoResult EXCEPT
          !.op = "state_city_heatmap",
          !.n1 = top_states,
          !.n2 = top_cities,
          !.cross = cross_tab,
          !.heat = Loc(cross_tab, rows, columns),
          !.style = rc,
          !.raised = raised,
          !.saved = Saved(save, raised, "results/state_city_heatmap.png")]

\* SIHAnalyzer.create_summary_dashboard, rendered with style rc (the style
\* after its plt.style.use).
create_summary_dashboard(d, rc, save, raised) ==
    LET cross_tab == Crosstab(d)
        rows == Keys(NLargest(RowTotals(cross_tab), DashboardHeatmapStates))
        columns == Keys(NLargest(ColumnTotals(cross_tab), DashboardHeatmapCities))
    IN [NoResult EXCEPT
          !.op = "create_summary_dashboard",
          !.n1 = DashboardTop,
          !.n2 = DashboardTop,
          !.states = HeadN(ValueCounts(d.State), DashboardTop),
          !.cities = HeadN(ValueCounts(d.City), DashboardTop),
          !.cross = cross_tab,
          !.heat = Loc(cross_tab, rows, columns),
          !.style = rc,
          !.raised = raised,
          !.saved = Saved(save, raised, "results/sih_dashboard.png")]

\* No Reporter process.
ReporterOff ==
    /\ rpc = "off"
    /\ data_path = <<>>
    /\ df = EmptyFrame
    /\ rcParams = DefaultRc
    /\ dirs = {}
    /\ reads = <<>>
    /\ err = "none"
    /\ last = NoResult

\* A Dataset left by an earlier run of the Collector.
StaleDataset == DataFrame(<<T_DL>>, <<T_Goa>>)

\* The four files a Collector run leaves whose last fragment was `fragment` and
\* whose combined Dataset was `combined`.
OutputFiles(fragment, combined) ==
    (sih_data_csv :> ToCsv(fragment))
    @@ (sih_data_json :> ToJson(fragment))
    @@ (combined_csv :> ToCsv(combined))
    @@ (combined_json :> ToJson(combined))

\* The working directory before the run: empty, or holding an earlier run's
\* files.
InitialDirs == { <<>>, OutputFiles(StaleDataset, StaleDataset) }

\* No URL scraped yet.
NoResponse == [outcome |-> "none", trs |-> <<>>]

CollectorInit ==
    /\ cpc = "loop"
    /\ idx = 1
    /\ response = NoResponse
    /\ returned = <<>>
    /\ attempted = <<>>
    /\ all_data = <<>>
    /\ files \in InitialDirs
    /\ writes = <<>>
    /\ out = <<>>
    /\ ReporterOff

CollectorNext == Scrape \/ Combine

SpecCollector == CollectorInit /\ [][CollectorNext]_vars

\* ---------------------------------------------------------------- Reporter

notes_txt == <<"n", "o", "t", "e", "s", ".", "t", "x", "t">>
DATA_CSV == <<"D", "A", "T", "A", ".", "C", "S", "V">>
data_no_suffix == <<"d", "a", "t", "a">>
hidden_csv == <<".", "c", "s", "v">>
csv_bak == <<"o", "l", "d", ".", "c", "s", "v", ".", "b", "a", "k">>

\* The paths a SIHAnalyzer is constructed with: main's, its JSON sibling, and
\* paths with another suffix or none.
Paths ==
    { combined_csv, combined_json,
      notes_txt, DATA_CSV, data_no_suffix, hidden_csv, csv_bak }

T_S(c) == <<"S", c>>
T_C(c) == <<"C", c>>

\* The records that precede the tail: texts as the Collector strips them,
\* "" for a cell that held only whitespace.
RecordTypes ==
    { <<T_MH, T_Pune>>, <<T_MH, T_Goa>>, <<T_DL, T_Goa>>,
      <<T_Empty, T_Pune>>, <<T_DL, T_Empty>> }

\* Twelve records over nine States and nine Cities.
WideTail ==
    << <<T_MH, T_Pune>>, <<T_DL, T_Goa>>,
       <<T_S("3"), T_C("3")>>, <<T_S("4"), T_C("4")>>, <<T_S("5"), T_C("5")>>,
       <<T_S("6"), T_C("6")>>, <<T_S("7"), T_C("7")>>, <<T_S("8"), T_C("8")>>,
       <<T_S("9"), T_C("9")>>, <<T_S("9"), T_C("3")>>, <<T_S("8"), T_C("3")>>,
       <<T_S("9"), T_C("8")>> >>

FrameOf(rows) ==
    DataFrame([k \in 1..Len(rows) |-> rows[k][1]],
              [k \in 1..Len(rows) |-> rows[k][2]])

\* The Datasets a Collector run may have left: some records, then nothing
\* more or the tail.  The Collector writes no empty Dataset.
Datasets ==
    { FrameOf(p \o t) : p \in SeqsUpTo(RecordTypes, MaxLen),
                        t \in { <<>>, WideTail } }
    \ { EmptyFrame }

\* The working directory the Reporter starts in: as a Collector run left it.
ReporterDirs == { <<>> } \cup { OutputFiles(d, d) : d \in Datasets }

\* A constructor that sets the style and creates the results directory
\* before it loads the data.
SIHAnalyzer_init_style_first(path, fs, rc, ds) ==
    LET loaded == load_data(path, fs)
    IN [err |-> loaded.err, df |-> loaded.df, reads |-> loaded.reads,
        rc |-> setup_style(rc), dirs |-> ds \cup {"results"}]

\* SIHAnalyzer.__init__: load_data, then setup_style, then os.makedirs; an
\* exception from load_data leaves the constructor at once.
SIHAnalyzer_init(path, fs, rc, ds) ==
    LET loaded == load_data(path, fs)
    IN IF loaded.err # "none"
       THEN [err |-> loaded.err, df |-> EmptyFrame, reads |-> loaded.reads,
             rc |-> rc, dirs |-> ds]
       ELSE [err |-> "none", df |-> loaded.df, reads |-> loaded.reads,
             rc |-> setup_style(rc), dirs |-> ds \cup {"results"}]

\* SIHAnalyzer(data_path)
Construct ==
    /\ rpc = "new"
    /\ \E path \in Paths :
         LET made == SIHAnalyzer_init(path, files, rcParams, dirs)
         IN /\ data_path' = path
            /\ df' = made.df
            /\ reads' = reads \o made.reads
            /\ rcParams' = made.rc
            /\ dirs' = made.dirs
            /\ err' = made.err
            /\ rpc' = IF made.err = "none" THEN "ready" ELSE "failed"
    /\ UNCHANGED <<last, files, collectorVars>>

\* The methods are called as main calls them, with save left at its default.
SaveArgs == {TRUE}

TopStatesArgs == 1..MaxN \cup {DefaultTopStates}

TopCitiesArgs == 1..MaxN \cup {DefaultTopCities}

HeatmapArgs ==
    (1..MaxN) \X (1..MaxN) \cup { <<DefaultHeatmapStates, DefaultHeatmapCities>> }

\* analyzer.basic_stats()
BasicStats ==
    /\ rpc = "ready"
    /\ last' = basic_stats(df)
    /\ UNCHANGED <<rpc, data_path, df, rcParams, dirs, reads, err>>
    /\ UNCHANGED <<files, collectorVars>>

\* analyzer.plot_top_states(n, save)
PlotTopStates ==
    /\ rpc = "ready"
    /\ \E n \in TopStatesArgs, save \in SaveArgs :
         \E raised \in PlotOutcomes(NUnique(df.State) = 0) :
            last' = plot_top_states(df, rcParams, n, save, raised)
    /\ UNCHANGED <<rpc, data_path, df, rcParams, dirs, reads, err>>
    /\ UNCHANGED <<files, collectorVars>>

\* analyzer.plot_city_distribution(top_n, save)
PlotCityDistribution ==
    /\ rpc = "ready"
    /\ \E top_n \in TopCitiesArgs, save \in SaveArgs :
         \E raised \in PlotOutcomes(NUnique(df.City) = 0) :
            last' = plot_city_distribution(df, rcParams, top_n, save, raised)
    /\ UNCHANGED <<rpc, data_path, df, rcParams, dirs, reads, err>>
    /\ UNCHANGED <<files, collectorVars>>

\* analyzer.state_city_heatmap(top_states, top_cities, save)
StateCityHeatmap ==
    /\ rpc = "ready"
    /\ \E args \in HeatmapArgs, save \in SaveArgs :
         \E raised \in PlotOutcomes(CountedRows(df) = {}) :
            last' = state_city_heatmap(df, rcParams, args[1], args[2], save, raised)
    /\ UNCHANGED <<rpc, data_path, df, rcParams, dirs, reads, err>>
    /\ UNCHANGED <<files, collectorVars>>

\* analyzer.create_summary_dashboard(save): plt.style.use("dark_background")
\* comes first, before anything is drawn.
CreateSummaryDashboard ==
    /\ rpc = "ready"
    /\ rcParams' = StyleUse(rcParams, "dark_background")
    /\ \E save \in SaveArgs :
         \E raised \in PlotOutcomes(NUnique(df.State) = 0
                                    \/ NUnique(df.City) = 0
                                    \/ CountedRows(df) = {}) :
            last' = create_summary_dashboard(df, rcParams', save, raised)
    /\ UNCHANGED <<rpc, data_path, df, dirs, reads, err>>
    /\ UNCHANGED <<files, collectorVars>>

\* No Collector process.
CollectorOff ==
    /\ cpc = "off"
    /\ idx = 1
    /\ response = NoResponse
    /\ returned = <<>>
    /\ attempted = <<>>
    /\ all_data = <<>>
    /\ writes = <<>>
    /\ out = <<>>

ReporterInit ==
    /\ CollectorOff
    /\ files \in ReporterDirs
    /\ rpc = "new"
    /\ data_path = <<>>
    /\ df = EmptyFrame
    /\ rcParams = DefaultRc
    /\ dirs = {}
    /\ reads = <<>>
    /\ err = "none"
    /\ last = NoResult

ReporterNext ==
    \/ Construct
    \/ BasicStats
    \/ PlotTopStates
    \/ PlotCityDistribution
    \/ StateCityHeatmap
    \/ CreateSummaryDashboard

SpecReporter == ReporterInit /\ [][ReporterNext]_vars

\* ------------------------------------------------- Collector: properties

\* The rows of a DataFrame, as <<State, City>> pairs in row order.
RowsOf(d) == [k \in 1..NRows(d) |-> <<d.State[k], d.City[k]>>]

FetchFailures == {"network_error", "http_error"}

\* The positions on a page of the <tr> elements whose class starts with "row".
RowIdx(trs) ==
    { j \in 1..Len(trs) :
        trs[j].class # None /\ StartsWith(trs[j].class, T_row) }

\* Those among them that have both a State and a City cell.
ValidIdx(trs) ==
    { j \in RowIdx(trs) : trs[j].state # None /\ trs[j].city # None }

\* The valid rows of a page in page order, texts stripped.
ExpectedFragment(trs) ==
    [m \in 1..Cardinality(ValidIdx(trs)) |->
       LET j == CHOOSE j \in ValidIdx(trs) :
                  Cardinality({ i \in ValidIdx(trs) : i <= j }) = m
       IN <<Strip(trs[j].state), Strip(trs[j].city)>>]

\* The rows of the fragments returned so far, in URL order.
RECURSIVE RowsInUrlOrder(_)
RowsInUrlOrder(rets) ==
    IF rets = <<>> THEN <<>>
    ELSE RowsOf(Head(rets).df) \o RowsInUrlOrder(Tail(rets))

\* The URLs (by position) that produced a non-empty fragment.
Productive == { k \in 1..Len(returned) : NRows(returned[k].df) > 0 }

\* The lines printed since the last "Starting data scraping" line.
LastScrapeLines ==
    LET j == CHOOSE j \in 1..Len(out) :
               /\ out[j].msg = "Starting"
               /\ \A i \in (j + 1)..Len(out) : out[i].msg # "Starting"
    IN SubSeq(out, j + 1, Len(out))

CountMsg(lines, text) ==
    Cardinality({ k \in 1..Len(lines) : lines[k].msg = text })

\* C1: every configured URL is attempted exactly once and in listed order
\* whatever the earlier outcomes; a URL whose fetch fails (network error or
\* non-success status) contributes no rows, and the run is never aborted: it
\* goes on to the later URLs and ends in main's final branch.
C1_EveryUrlAttemptedInOrder ==
    /\ cpc \in {"loop", "done"}
    /\ attempted = SubSeq(urls, 1, idx - 1)
    /\ Len(returned) = Len(attempted)
    /\ cpc = "done" => attempted = urls
    /\ \A k \in 1..Len(returned) :
         returned[k].outcome \in FetchFailures
         => returned[k].none /\ NRows(returned[k].df) = 0
    /\ Len(all_data) = Cardinality({ k \in 1..Len(returned) : ~returned[k].none })
    /\ (returned # <<>> /\ response.outcome \in FetchFailures)
       => CountMsg(LastScrapeLines, "ErrorFetching") = 1

\* A finished run whose first two URLs failed, one each way, and whose third
\* URL delivered rows.
C1_Witness ==
    /\ cpc = "done"
    /\ attempted = urls
    /\ returned[1].outcome = "network_error"
    /\ returned[2].outcome = "http_error"
    /\ ~returned[3].none

\* C2: if every URL fails or yields no valid row, the run ends having written
\* none of its four output files and having printed "No data scraped"; the
\* combined files are written exactly when some URL produced a non-empty
\* fragment, and only by main's final branch.
C2_NoOutputWhenNothingScraped ==
    /\ (returned # <<>> /\ response.outcome = "ok")
       => (NRows(Last(returned).df) > 0 <=> ValidIdx(response.trs) # {})
    /\ cpc = "loop"
       => combined_csv \notin Range(writes) /\ combined_json \notin Range(writes)
    /\ cpc = "done"
       => /\ combined_csv \in Range(writes) <=> Productive # {}
          /\ combined_json \in Range(writes) <=> Productive # {}
          /\ Productive = {}
             => writes = <<>> /\ Last(out) = Msg("NoDataScraped", 0)
          /\ Productive # {}
             => Msg("NoDataScraped", 0) \notin Range(out)

\* A finished run in which a page without a valid row and two failed fetches
\* left nothing written.
C2_Witness ==
    /\ cpc = "done"
    /\ returned[1].outcome = "ok"
    /\ returned[2].outcome = "http_error"
    /\ returned[3].outcome = "network_error"
    /\ writes = <<>>
    /\ Last(out) = Msg("NoDataScraped", 0)

\* C3: a fragment is the page's valid rows in page order (duplicates kept),
\* and the combined Dataset written is the concatenation, in URL order, of the
\* fragments of the URLs that produced at least one valid row; a URL with no
\* valid row adds nothing and raises nothing.
C3_CombinedIsConcatenation ==
    /\ cpc # "crashed"
    /\ (returned # <<>> /\ response.outcome = "ok")
       => /\ RowsOf(Last(returned).df) = ExpectedFragment(response.trs)
          /\ Last(returned).none <=> ExpectedFragment(response.trs) = <<>>
    /\ \A k \in 1..Len(all_data) : NRows(all_data[k]) > 0
    /\ (cpc = "done" /\ Productive # {})
       => /\ files[combined_csv].rows = RowsInUrlOrder(returned)
          /\ files[combined_json].records =
               [k \in 1..Len(RowsInUrlOrder(returned)) |->
                  [State |-> [null |-> FALSE, str |-> RowsInUrlOrder(returned)[k][1]],
                   City |-> [null |-> FALSE, str |-> RowsInUrlOrder(returned)[k][2]]]]

\* A finished run whose first page held the same (State, City) record twice,
\* whose second page had no valid row and whose third page gave another
\* fragment.
C3_Witness ==
    /\ cpc = "done"
    /\ NRows(returned[1].df) = 2
    /\ RowsOf(returned[1].df)[1] = RowsOf(returned[1].df)[2]
    /\ returned[2].outcome = "ok" /\ returned[2].none
    /\ NRows(returned[3].df) = 2
    /\ RowsOf(returned[3].df)[1] # RowsOf(returned[3].df)[2]
    /\ RowsOf(returned[3].df)[1] # RowsOf(returned[1].df)[1]

AllFrames == Range(all_data) \cup { returned[k].df : k \in 1..Len(returned) }

C9_HoldsLastUrlFragment ==
    (cpc = "done" /\ sih_data_csv \in Range(writes))
    => /\ files[sih_data_csv].rows = RowsOf(returned[Len(urls)].df)
       /\ files[sih_data_json] = ToJson(returned[Len(urls)].df)

\* C9, amended: after the run the per-URL files hold exactly the fragment of
\* the last URL that yielded at least one valid row (every such scrape
\* overwrites them; a URL that fails or yields no row leaves them alone), and
\* this run has not written them when no URL yielded rows; the combined files
\* hold the full concatenation.
C9_HoldsLastProductiveFragment ==
    cpc = "done"
    => IF Productive = {}
       THEN sih_data_csv \notin Range(writes) /\ sih_data_json \notin Range(writes)
       ELSE LET m == CHOOSE m \in Productive : \A k \in Productive : k <= m
            IN /\ files[sih_data_csv].rows = RowsOf(returned[m].df)
               /\ files[sih_data_json] = ToJson(returned[m].df)
               /\ files[combined_csv].rows = RowsInUrlOrder(returned)

\* A finished run whose first two URLs gave different fragments and whose
\* last URL gave none.
C9_Witness ==
    /\ cpc = "done"
    /\ ~returned[1].none
    /\ ~returned[2].none
    /\ returned[1].df # returned[2].df
    /\ returned[3].none
    /\ files[sih_data_csv].rows = RowsOf(returned[2].df)

\* -------------------------------------------------- Reporter: properties

UnsupportedPaths == { notes_txt, DATA_CSV, data_no_suffix, hidden_csv, csv_bak }

\* C5: constructing the Reporter with a path whose extension is neither
\* ".csv" nor ".json" fails with the unsupported-format error before anything
\* else happens: no file is handed to a parser, the plotting style is not set
\* and the results directory is not created; a ".csv" path is read by the CSV
\* parser and a ".json" path by the JSON parser.
C5_UnsupportedFormatFailsFast ==
    rpc # "new"
    => /\ data_path \in UnsupportedPaths
          => /\ rpc = "failed"
             /\ err = "ValueError"
             /\ reads = <<>>
             /\ rcParams = DefaultRc
             /\ dirs = {}
             /\ df = EmptyFrame
       /\ data_path = combined_csv
          => reads = <<[path |-> combined_csv, parser |-> "csv"]>>
       /\ data_path = combined_json
          => reads = <<[path |-> combined_json, parser |-> "json"]>>
       /\ data_path \in UnsupportedPaths \cup {combined_csv, combined_json}

\* SIHAnalyzer("notes.txt") has failed in a directory that holds a Dataset.
C5_Witness ==
    /\ rpc = "failed"
    /\ data_path = notes_txt
    /\ err = "ValueError"
    /\ combined_csv \in DOMAIN files

\* The values of a column that are not missing.
Distinct(col) == Range(col) \ {NaN}

\* sel is a top-n selection of the column: each entry a distinct value of the
\* column with the number of rows that hold it, min(n, number of distinct
\* values) entries, counts never rising, and no value left out that counts
\* more than one taken.
TopNSelection(col, sel, n) ==
    /\ \A i \in 1..Len(sel) :
         /\ sel[i].key \in Distinct(col)
         /\ sel[i].count = Cardinality({ k \in 1..Len(col) : col[k] = sel[i].key })
    /\ \A i, j \in 1..Len(sel) : i # j => sel[i].key # sel[j].key
    /\ Len(sel) = Min(n, Cardinality(Distinct(col)))
    /\ \A i \in 1..(Len(sel) - 1) : sel[i].count >= sel[i + 1].count
    /\ \A v \in Distinct(col) \ { sel[i].key : i \in 1..Len(sel) } :
         \A i \in 1..Len(sel) :
            Cardinality({ k \in 1..Len(col) : col[k] = v }) <= sel[i].count

\* C6 as stated: the per-State counts and the per-City counts of the loaded
\* Dataset each sum to its length, the "Total Entries" of basic_stats.
C6_CountsSumToLength ==
    rpc = "ready"
    => /\ SumSeq([i \in 1..Len(ValueCounts(df.State)) |->
                    ValueCounts(df.State)[i].count]) = NRows(df)
       /\ SumSeq([i \in 1..Len(ValueCounts(df.City)) |->
                    ValueCounts(df.City)[i].count]) = NRows(df)
       /\ last.op = "basic_stats" => last.total = NRows(df)

\* C7: every top-n selection the Reporter makes (top 5 in basic_stats, n in
\* plot_top_states, top_n in plot_city_distribution, top 8 in the dashboard)
\* is a part of the full frequency ranking, has min(n, number of distinct
\* values) entries in non-increasing order of count, and leaves out no value
\* with a strictly larger count than one it takes.
C7_TopNSelections ==
    /\ last.op = "basic_stats"
       => /\ TopNSelection(df.State, last.states, 5)
          /\ TopNSelection(df.City, last.cities, 5)
    /\ last.op = "plot_top_states"
       => TopNSelection(df.State, last.states, last.n1)
    /\ last.op = "plot_city_distribution"
       => TopNSelection(df.City, last.cities, last.n2)
    /\ last.op = "create_summary_dashboard"
       => /\ TopNSelection(df.State, last.states, 8)
          /\ TopNSelection(df.City, last.cities, 8)

\* The dashboard has taken the 8 most frequent of 9 States, counts falling
\* from first to last.
C7_Witness ==
    /\ last.op = "create_summary_dashboard"
    /\ Cardinality(Distinct(df.State)) = 9
    /\ Len(last.states) = 8
    /\ last.states[1].count > last.states[8].count
    /\ NaN \in Range(df.State)

\* keys are the top k of the keys of `total` (a total per key): distinct,
\* min(k, number of keys) of them, totals never rising, none left out with a
\* larger total than one taken.
TopKBy(keys, k, total) ==
    /\ Range(keys) \subseteq DOMAIN total
    /\ \A i, j \in 1..Len(keys) : i # j => keys[i] # keys[j]
    /\ Len(keys) = Min(k, Cardinality(DOMAIN total))
    /\ \A i \in 1..(Len(keys) - 1) : total[keys[i]] >= total[keys[i + 1]]
    /\ \A v \in (DOMAIN total) \ Range(keys) :
         \A i \in 1..Len(keys) : total[v] <= total[keys[i]]

\* The sum of the crosstab's cells along a State's row.
CrossRowTotal ==
    [v \in Range(last.cross.index) |->
       SumSeq([j \in 1..Len(last.cross.columns) |->
                 last.cross.cell[<<v, last.cross.columns[j]>>]])]

\* The sum of the crosstab's cells along a City's column.
CrossColumnTotal ==
    [v \in Range(last.cross.columns) |->
       SumSeq([i \in 1..Len(last.cross.index) |->
                 last.cross.cell[<<last.cross.index[i], v>>]])]

\* C8 as stated: the cells of the State x City cross-tabulation sum to the
\* length of the Dataset, and the heatmap shows the top-K States by row total
\* against the top-K Cities by column total, each list chosen on its own, so
\* that the cells shown are the product of the two lists.
C8_CrosstabSumsToLength ==
    last.op \in {"state_city_heatmap", "create_summary_dashboard"}
    => /\ SumSeq([i \in 1..Len(last.cross.index) |->
                    CrossRowTotal[last.cross.index[i]]]) = NRows(df)
       /\ TopKBy(last.heat.index,
                 IF last.op = "state_city_heatmap" THEN last.n1 ELSE 6,
                 CrossRowTotal)
       /\ TopKBy(last.heat.columns,
                 IF last.op = "state_city_heatmap" THEN last.n2 ELSE 8,
                 CrossColumnTotal)
       /\ DOMAIN last.heat.cell = Range(last.heat.index) \X Range(last.heat.columns)
       /\ \A pr \in DOMAIN last.heat.cell :
            last.heat.cell[pr] =
              Cardinality({ k \in 1..NRows(df) : <<df.State[k], df.City[k]>> = pr })

\* The style SIHAnalyzer.__init__ leaves.
StyleAtInit ==
    [axes_facecolor |-> "#EAEAF2", text_color |-> ".15", axes_labelsize |-> "12"]

\* C10 as stated: the chart style set when the Reporter is initialised stays
\* what it is whatever methods are called, and every bar chart and heatmap is
\* rendered with it.
C10_StyleConstantAfterInit ==
    rpc = "ready"
    => /\ rcParams = StyleAtInit
       /\ last.op \in {"plot_top_states", "plot_city_distribution",
                       "state_city_heatmap"}
          => last.style = StyleAtInit

=============================================================================
